---- MODULE Spec2Model ----
(***************************************************************************)
(* Customer CRUD API (api/views.py, api/serializers.py, business/admin.py) *)
(* as a state machine: the customer table, the last operation handled and  *)
(* the response it produced.  A second specification, CodecSpec, drives    *)
(* the ChoiceField codec of api/serializers.py on its own.                 *)
(***************************************************************************)
EXTENDS Integers, Sequences, FiniteSets, TLC

\* ------------------------------------------------------------------ bounds
\* customers ever inserted (ids handed out by the table's auto-increment)
MaxId == 2
\* calls made to the ChoiceField in CodecSpec
MaxCalls == 2

\* ------------------------------------------------------- program constants
HTTP_200_OK == 200
HTTP_201_CREATED == 201
HTTP_204_NO_CONTENT == 204
HTTP_400_BAD_REQUEST == 400
HTTP_401_UNAUTHORIZED == 401

\* a null column
NULL == "<null>"
\* request.user of a request without valid credentials
AnonymousUser == "AnonymousUser"
\* the accounts of the deployment
Users == {"admin"}

\* business.models.Customer.GENDER_CHOICES: (code, label) pairs
GENDER_CHOICES == << <<"M", "Male">>, <<"F", "Female">> >>
\* business.models.Customer status codes
STATUS_CODES == {"draft", "published"}
\* value of a CharField column that save() was given no value for
CharFieldDefault == ""

VARIABLES
    db,              \* the customer table: id -> row
    next_id,         \* the table's auto-increment counter
    status_default,  \* the default of Customer.status
    req,             \* the operation handled last
    resp,            \* the response it was given
    field,           \* CodecSpec: the ChoiceField instance
    calls            \* CodecSpec: the calls made to it, with their results

vars == <<db, next_id, status_default, req, resp, field, calls>>

\* ------------------------------------------------------------- ChoiceField
Keys(choices) == {choices[i][1] : i \in 1..Len(choices)}
Labels(choices) == {choices[i][2] : i \in 1..Len(choices)}

\* self._choices[obj]
ChoicesGet(choices, obj) ==
    IF obj \in Keys(choices)
    THEN [ok |-> TRUE,
          value |-> choices[CHOOSE i \in 1..Len(choices) : choices[i][1] = obj][2]]
    ELSE [ok |-> FALSE, value |-> "KeyError"]

to_representation(choices, allow_blank, obj) ==
    IF obj = "" /\ allow_blank
    THEN [ok |-> TRUE, value |-> obj]
    ELSE ChoicesGet(choices, obj)

\* the loop over self._choices.items(), from position i on
RECURSIVE FirstKeyOf(_, _, _)
FirstKeyOf(choices, data, i) ==
    IF i > Len(choices)
    THEN [ok |-> FALSE, value |-> "invalid_choice"]
    ELSE IF choices[i][2] = data
         THEN [ok |-> TRUE, value |-> choices[i][1]]
         ELSE FirstKeyOf(choices, data, i + 1)

\* the bug of accepting the stored code, as the stock ChoiceField does
to_internal_value_keys(choices, allow_blank, data) ==
    IF data \in Keys(choices)
    THEN [ok |-> TRUE, value |-> data]
    ELSE [ok |-> FALSE, value |-> "invalid_choice"]

to_internal_value(choices, allow_blank, data) ==
    IF data = "" /\ allow_blank
    THEN [ok |-> TRUE, value |-> ""]
    ELSE FirstKeyOf(choices, data, 1)

\* ------------------------------------------------------ CustomerSerializer
\* gender = ChoiceField(Customer.GENDER_CHOICES): allow_blank is left False
gender_allow_blank == FALSE

get_full_name(obj) == obj.name \o " " \o obj.last_name

Meta_fields == {"id", "full_name", "title", "gender", "created"}
\* full_name = serializers.SerializerMethodField(): output only
MethodFields == {"full_name"}
\* columns of Customer that are not editable: the primary key and the creation
\* timestamp, set once when the row is inserted
ModelReadOnly == {"id", "created"}
WritableFields == Meta_fields \ (MethodFields \cup ModelReadOnly)

\* serializer.data of one customer
Representation(obj) ==
    [id |-> obj.id,
     full_name |-> get_full_name(obj),
     title |-> obj.title,
     gender |-> to_representation(GENDER_CHOICES, gender_allow_blank, obj.gender).value,
     created |-> obj.created]

\* the error list of one writable field, <<>> when the field validates
FieldErrors(f, data) ==
    IF f \notin DOMAIN data THEN <<"required">>
    ELSE IF f = "title"
         THEN IF data[f] = "" THEN <<"blank">> ELSE <<>>
         ELSE IF to_internal_value(GENDER_CHOICES, gender_allow_blank, data[f]).ok
              THEN <<>> ELSE <<"invalid_choice">>

\* serializer.errors: field name -> reasons, for the fields that failed
errors(data) ==
    [f \in {g \in WritableFields : FieldErrors(g, data) # <<>>} |-> FieldErrors(f, data)]

is_valid(data) == DOMAIN errors(data) = {}

\* serializer.validated_data when is_valid()
validated_data(data) ==
    [title |-> data.title,
     gender |-> to_internal_value(GENDER_CHOICES, gender_allow_blank, data.gender).value]

\* ModelSerializer.create: Customer.objects.create(**validated_data)
create(validated, id, now, dflt) ==
    [id |-> id,
     title |-> validated.title,
     name |-> CharFieldDefault,
     last_name |-> CharFieldDefault,
     gender |-> validated.gender,
     status |-> dflt,
     created_by |-> NULL,
     created |-> now]

\* the bug of writing every key of request.data that names a column
update_from_initial_data(instance, validated, initial_data) ==
    [f \in DOMAIN instance |->
        IF f \in DOMAIN validated THEN validated[f]
        ELSE IF f \in DOMAIN initial_data THEN initial_data[f]
        ELSE instance[f]]

\* ModelSerializer.update: setattr for every validated attribute, then save()
update(instance, validated, initial_data) ==
    [f \in DOMAIN instance |->
        IF f \in DOMAIN validated THEN validated[f] ELSE instance[f]]

\* ---------------------------------------------------------------- manager
\* Customer.published: the rows whose status is published
published(store) == {id \in DOMAIN store : store[id].status = "published"}

Response(kind, body, status) == [status |-> status, kind |-> kind, body |-> body]
NoBody == {}
Returned(response, store) == [raised |-> "", resp |-> response, store |-> store]
Raised(exc, store) == [raised |-> exc, resp |-> Response("none", NoBody, 0), store |-> store]

Insert(store, row) == [i \in DOMAIN store \cup {row.id} |-> IF i = row.id THEN row ELSE store[i]]
Remove(store, id) == [i \in DOMAIN store \ {id} |-> store[i]]

\* ------------------------------------------------------------------ views
\* Customer.objects.get(pk=pk) finds a row: the lookup without the manager
objects_get(store, pk) == pk \in DOMAIN store

\* Customer.published.get(pk=pk) finds a row (DoesNotExist otherwise)
published_get(store, pk) == pk \in published(store)

\* Customer.published.all()
published_all(store) == {store[id] : id \in published(store)}

CustomerView_get(store) ==
    Returned(Response("list", {Representation(c) : c \in published_all(store)}, HTTP_200_OK),
             store)

\* the bug of saving before is_valid() is consulted
CustomerView_post_unchecked(store, data, id, now, dflt) ==
    LET title == IF "title" \in DOMAIN data THEN data.title ELSE CharFieldDefault
        code == to_internal_value(GENDER_CHOICES, gender_allow_blank, data.gender)
        row == create([title |-> title, gender |-> IF code.ok THEN code.value ELSE "M"],
                      id, now, dflt)
    IN  IF is_valid(data)
        THEN Returned(Response("customer", Representation(row), HTTP_201_CREATED),
                      Insert(store, row))
        ELSE Returned(Response("errors", errors(data), HTTP_400_BAD_REQUEST),
                      Insert(store, row))

CustomerView_post(store, data, id, now, dflt) ==
    IF is_valid(data)
    THEN LET row == create(validated_data(data), id, now, dflt)
         IN  Returned(Response("customer", Representation(row), HTTP_201_CREATED),
                      Insert(store, row))
    ELSE Returned(Response("errors", errors(data), HTTP_400_BAD_REQUEST), store)

\* the bug of answering a miss with 404
resource_checker_404(r) ==
    IF r.raised = "DoesNotExist"
    THEN Returned(Response("message", [message |-> "Not Found"], 404), r.store)
    ELSE r

\* the decorator: the wrapped method's result, DoesNotExist turned into a response
resource_checker(r) ==
    IF r.raised = "DoesNotExist"
    THEN Returned(Response("message", [message |-> "Not Found"], HTTP_204_NO_CONTENT),
                  r.store)
    ELSE r

CustomerDetailView_get(store, pk) ==
    resource_checker(
        IF ~published_get(store, pk) THEN Raised("DoesNotExist", store)
        ELSE Returned(Response("customer", Representation(store[pk]), HTTP_200_OK), store))

CustomerDetailView_put(store, pk, data) ==
    resource_checker(
        IF ~published_get(store, pk) THEN Raised("DoesNotExist", store)
        ELSE IF is_valid(data)
             THEN LET row == update(store[pk], validated_data(data), data)
                  IN  Returned(Response("customer", Representation(row), HTTP_200_OK),
                               [store EXCEPT ![pk] = row])
             ELSE Returned(Response("errors", errors(data), HTTP_400_BAD_REQUEST), store))

\* the bug of a soft delete: the row is kept and only marked
CustomerDetailView_delete_soft(store, pk) ==
    resource_checker(
        IF ~published_get(store, pk) THEN Raised("DoesNotExist", store)
        ELSE Returned(Response("empty", NoBody, HTTP_204_NO_CONTENT),
                      [store EXCEPT ![pk].status = "draft"]))

CustomerDetailView_delete(store, pk) ==
    resource_checker(
        IF ~published_get(store, pk) THEN Raised("DoesNotExist", store)
        ELSE Returned(Response("empty", NoBody, HTTP_204_NO_CONTENT), Remove(store, pk)))

\* permission_classes = (AllowAny,)
AllowAny(user) == TRUE

\* permission_classes = (IsAuthenticated,)
IsAuthenticated(user) == user # AnonymousUser

\* APIView.dispatch: the permission check, then the handler; an exception the
\* handler lets through is the server's 500
dispatch(user, store, r) ==
    IF ~IsAuthenticated(user)
    THEN Returned(Response("detail", [detail |-> "not_authenticated"],
                           HTTP_401_UNAUTHORIZED), store)
    ELSE IF r.raised # ""
         THEN Returned(Response("detail", [detail |-> r.raised], 500), store)
         ELSE r

\* ----------------------------------------------------------------- inputs
Requesters == Users \cup {AnonymousUser}
\* the value timezone.now() takes
Times == {"2020-07-01"}
\* the identifiers a detail URL is asked for
Pks == 1..MaxId

NoData == <<>>
\* request.data: title may be left out; gender is a label or the code "M";
\* status is a declared value or not; id and created are sent along
TitlePart == {<<>>, [title |-> "Mr"]}
BasePart ==
    [name : {"Peter"}, last_name : {"Parkerz"},
     gender : {"Female", "M"},
     status : {"draft", "published", "archived"},
     id : {0}, created : {"1999-12-31"}]
Payloads == {b @@ t : b \in BasePart, t \in TitlePart}

Request(method, path, user, pk, data) ==
    [method |-> method, path |-> path, user |-> user, pk |-> pk, data |-> data]

Handled(request, r) ==
    /\ req' = request
    /\ resp' = r.resp
    /\ db' = r.store

\* ---------------------------------------------------------------- actions
List ==
    \E user \in Requesters :
        /\ Handled(Request("GET", "customers", user, 0, NoData),
                   dispatch(user, db, CustomerView_get(db)))
        /\ UNCHANGED <<next_id, status_default, field, calls>>

\* an insert needs an id left within MaxId
Create ==
    \E user \in Requesters, data \in Payloads, now \in Times :
        LET r == dispatch(user, db, CustomerView_post(db, data, next_id, now, status_default))
        IN  /\ (r.store # db) => next_id <= MaxId
            /\ Handled(Request("POST", "customers", user, 0, data), r)
            /\ next_id' = IF r.store # db THEN next_id + 1 ELSE next_id
            /\ UNCHANGED <<status_default, field, calls>>

Retrieve ==
    \E user \in Requesters, pk \in Pks :
        /\ Handled(Request("GET", "customer-detail", user, pk, NoData),
                   dispatch(user, db, CustomerDetailView_get(db, pk)))
        /\ UNCHANGED <<next_id, status_default, field, calls>>

Update ==
    \E user \in Requesters, pk \in Pks, data \in Payloads :
        /\ Handled(Request("PUT", "customer-detail", user, pk, data),
                   dispatch(user, db, CustomerDetailView_put(db, pk, data)))
        /\ UNCHANGED <<next_id, status_default, field, calls>>

Destroy ==
    \E user \in Requesters, pk \in Pks :
        /\ Handled(Request("DELETE", "customer-detail", user, pk, NoData),
                   dispatch(user, db, CustomerDetailView_delete(db, pk)))
        /\ UNCHANGED <<next_id, status_default, field, calls>>

\* the admin site's add form for Customer: every column but created is editable
AdminAdd ==
    \E st \in STATUS_CODES, now \in Times :
        LET row == [id |-> next_id, title |-> "Dr", name |-> "Peter",
                    last_name |-> "Parkerz", gender |-> "M", status |-> st,
                    created_by |-> "admin", created |-> now]
        IN  /\ next_id <= MaxId
            /\ db' = Insert(db, row)
            /\ next_id' = next_id + 1
            /\ req' = Request("ADMIN", "admin", "admin", next_id, NoData)
            /\ resp' = Response("empty", NoBody, 302)
            /\ UNCHANGED <<status_default, field, calls>>

Init ==
    /\ db = <<>>
    /\ next_id = 1
    /\ status_default \in STATUS_CODES
    /\ req = Request("NONE", "", AnonymousUser, 0, NoData)
    /\ resp = Response("none", NoBody, 0)
    /\ field = [choices |-> GENDER_CHOICES, allow_blank |-> gender_allow_blank]
    /\ calls = <<>>

Next == List \/ Create \/ Retrieve \/ Update \/ Destroy \/ AdminAdd

Spec == Init /\ [][Next]_vars

\* ------------------------------------------------- the ChoiceField alone
CodecInputs == Keys(GENDER_CHOICES) \cup Labels(GENDER_CHOICES) \cup {"", "Other"}

Call(op, arg, out) == [op |-> op, arg |-> arg, out |-> out]

CodecInit ==
    /\ db = <<>>
    /\ next_id = 1
    /\ status_default = "draft"
    /\ req = Request("NONE", "", AnonymousUser, 0, NoData)
    /\ resp = Response("none", NoBody, 0)
    /\ field \in [choices : {GENDER_CHOICES}, allow_blank : BOOLEAN]
    /\ calls = <<>>

CallToRepresentation ==
    \E obj \in CodecInputs :
        /\ Len(calls) < MaxCalls
        /\ calls' = Append(calls, Call("to_representation", obj,
                               to_representation(field.choices, field.allow_blank, obj)))
        /\ UNCHANGED <<db, next_id, status_default, req, resp, field>>

CallToInternalValue ==
    \E data \in CodecInputs :
        /\ Len(calls) < MaxCalls
        /\ calls' = Append(calls, Call("to_internal_value", data,
                               to_internal_value(field.choices, field.allow_blank, data)))
        /\ UNCHANGED <<db, next_id, status_default, req, resp, field>>

CodecNext == CallToRepresentation \/ CallToInternalValue

CodecSpec == CodecInit /\ [][CodecNext]_vars

\* ----------------------------------------------------------- vocabulary
ApiMethods == {"GET", "POST", "PUT", "DELETE"}
OnCollection(r) == r.path = "customers"
OnDetail(r) == r.path = "customer-detail"
ByUser(r) == r.user \in Users
ByAnonymous(r) == r.user = AnonymousUser /\ r.method \in ApiMethods

\* the response the wrapper gives for a miss
IsNotFound(r) ==
    /\ r.kind = "message"
    /\ r.status = HTTP_204_NO_CONTENT
    /\ r.body = [message |-> "Not Found"]

\* a mapping of field name to a non-empty list of reasons, for at least one field
IsErrorMapping(r) ==
    /\ r.kind = "errors"
    /\ DOMAIN r.body # {}
    /\ DOMAIN r.body \subseteq {"title", "name", "last_name", "gender", "status"}
    /\ \A f \in DOMAIN r.body : Len(r.body[f]) > 0

\* the (code, label) pairs of a choices table
Pairs(choices) == {choices[i] : i \in 1..Len(choices)}

\* ids handed out whose row is no longer stored
Gone(store, counter) == {id \in 1..(counter - 1) : id \notin DOMAIN store}

\* --------------------------------------------------------------- claims

\* C1: a request on either endpoint without an authenticated user is answered
\* 401 with no customer data, and the stored customers are unchanged.
C1_UnauthenticatedIs401 ==
    [][ByAnonymous(req') =>
            /\ resp'.status = HTTP_401_UNAUTHORIZED
            /\ resp'.kind = "detail"
            /\ db' = db]_vars

C1_Witness ==
    /\ ByAnonymous(req)
    /\ req.method = "DELETE"
    /\ req.pk \in published(db)
    /\ resp.status = HTTP_401_UNAUTHORIZED

\* C2: a draft customer is in no list response, and a detail read, update or
\* delete of its id by any authenticated requester, its creator included, gets
\* the not-found response and leaves the row as it was.
C2_DraftInvisible ==
    [][ByUser(req') =>
            /\ (req'.method = "GET" /\ OnCollection(req')) =>
                    \A id \in DOMAIN db :
                        db[id].status = "draft" =>
                            /\ resp'.kind = "list"
                            /\ \A rep \in resp'.body : rep.id # id
            /\ (OnDetail(req') /\ req'.pk \in DOMAIN db /\ db[req'.pk].status = "draft") =>
                    /\ IsNotFound(resp')
                    /\ req'.pk \in DOMAIN db'
                    /\ db'[req'.pk] = db[req'.pk]]_vars

C2_Witness ==
    /\ ByUser(req)
    /\ req.method = "PUT"
    /\ req.pk \in DOMAIN db
    /\ db[req.pk].status = "draft"
    /\ db[req.pk].created_by = req.user
    /\ is_valid(req.data)
    /\ IsNotFound(resp)

\* a payload every field of which is acceptable: a title, a declared gender
\* label and a declared status
WellFormed(data) ==
    /\ "title" \in DOMAIN data /\ data.title # ""
    /\ data.gender \in Labels(GENDER_CHOICES)
    /\ data.status \in STATUS_CODES

\* the row holds what the payload submitted
StoredAsSubmitted(row, data) ==
    /\ row.title = data.title
    /\ row.name = data.name
    /\ row.last_name = data.last_name
    /\ row.status = data.status
    /\ <<row.gender, data.gender>> \in Pairs(GENDER_CHOICES)

\* C3: an authenticated create or update (of a stored published customer) with
\* a payload that passes validation answers 201, respectively 200, and the
\* stored customer then has the submitted title, name, last_name and status
\* and the code of the submitted gender label; create adds exactly one row.
C3_WriteStoresPayload ==
    [][(ByUser(req') /\ WellFormed(req'.data)) =>
            /\ (req'.method = "POST") =>
                    /\ resp'.status = HTTP_201_CREATED
                    /\ \E id \in DOMAIN db' :
                            /\ DOMAIN db' = DOMAIN db \cup {id}
                            /\ id \notin DOMAIN db
                            /\ StoredAsSubmitted(db'[id], req'.data)
                    /\ \A id \in DOMAIN db : db'[id] = db[id]
            /\ (req'.method = "PUT" /\ req'.pk \in published(db)) =>
                    /\ resp'.status = HTTP_200_OK
                    /\ StoredAsSubmitted(db'[req'.pk], req'.data)]_vars

\* C4: when validation fails in an authenticated create, or in an authenticated
\* update of a stored published customer, the answer is 400 with a mapping of
\* field name to reasons and the table is exactly as it was.
C4_InvalidPayloadWritesNothing ==
    [][(/\ ByUser(req')
        /\ \/ req'.method = "POST"
           \/ req'.method = "PUT" /\ req'.pk \in published(db)
        /\ \/ "title" \notin DOMAIN req'.data
           \/ req'.data.gender \notin Labels(GENDER_CHOICES)) =>
            /\ resp'.status = HTTP_400_BAD_REQUEST
            /\ IsErrorMapping(resp')
            /\ db' = db]_vars

C4_Witness ==
    /\ ByUser(req)
    /\ req.method = "PUT"
    /\ req.pk \in published(db)
    /\ "title" \notin DOMAIN req.data
    /\ resp.status = HTTP_400_BAD_REQUEST
    /\ DOMAIN resp.body = {"title"}

\* C5: an authenticated create or update whose gender or status is not a
\* declared value of that field fails with 400 and an error under that field's
\* name.
C5_InvalidChoiceIs400 ==
    [][(/\ ByUser(req')
        /\ \/ req'.method = "POST"
           \/ req'.method = "PUT" /\ req'.pk \in published(db)) =>
            /\ (req'.data.gender \notin Labels(GENDER_CHOICES)) =>
                    /\ resp'.status = HTTP_400_BAD_REQUEST
                    /\ IsErrorMapping(resp')
                    /\ "gender" \in DOMAIN resp'.body
            /\ (req'.data.status \notin STATUS_CODES) =>
                    /\ resp'.status = HTTP_400_BAD_REQUEST
                    /\ IsErrorMapping(resp')
                    /\ "status" \in DOMAIN resp'.body]_vars

\* C6: once an authenticated POST with status published has created customer
\* k, an authenticated GET of k answers 200 with k's representation, which
\* carries the submitted name.
C6_CreatedThenReadable ==
    [][(/\ ByUser(req) /\ req.method = "POST"
        /\ req.data.status = "published"
        /\ resp.status = HTTP_201_CREATED
        /\ ByUser(req') /\ req'.method = "GET" /\ OnDetail(req')
        /\ req'.pk = resp.body.id) =>
            /\ resp'.status = HTTP_200_OK
            /\ resp'.kind = "customer"
            /\ resp'.body.id = req'.pk
            /\ resp'.body.full_name = req.data.name \o " " \o req.data.last_name]_vars

\* C7: an authenticated DELETE of a stored published customer answers 204 and
\* removes the row; from then on the id stays absent, every authenticated GET,
\* PUT or DELETE of it gets the not-found response, and no list shows it.
C7_DeleteIsPhysical ==
    [][/\ (ByUser(req') /\ req'.method = "DELETE" /\ req'.pk \in published(db)) =>
            /\ resp'.status = HTTP_204_NO_CONTENT
            /\ req'.pk \notin DOMAIN db'
            /\ req'.pk \in Gone(db', next_id')
       /\ Gone(db, next_id) \subseteq Gone(db', next_id')
       /\ (ByUser(req') /\ OnDetail(req') /\ req'.pk \in Gone(db, next_id)) =>
            IsNotFound(resp')
       /\ (ByUser(req') /\ req'.method = "GET" /\ OnCollection(req')) =>
            \A rep \in resp'.body : rep.id \notin Gone(db, next_id)]_vars

C7_Witness ==
    /\ ByUser(req)
    /\ req.method = "GET" /\ OnDetail(req)
    /\ req.pk \in Gone(db, next_id)
    /\ IsNotFound(resp)

\* C8: an authenticated detail read, update or delete of an id that no
\* published customer has gets the wrapper's not-found response, status 204,
\* whatever the payload, and the table is unchanged.
C8_MissIsNoContent ==
    [][(ByUser(req') /\ OnDetail(req') /\ req'.pk \notin published(db)) =>
            /\ IsNotFound(resp')
            /\ db' = db]_vars

C8_Witness ==
    /\ ByUser(req)
    /\ req.method = "PUT"
    /\ req.pk \notin DOMAIN db
    /\ req.data.gender \notin Labels(GENDER_CHOICES)
    /\ IsNotFound(resp)

\* C9: to_representation of a declared gender code gives its label, and
\* to_internal_value of that label gives the code back; with allow_blank the
\* empty string is returned as it is, in both directions.
C9_CodecRoundTrip ==
    \A i \in 1..Len(calls) :
        /\ (calls[i].op = "to_representation" /\ calls[i].arg \in Keys(field.choices)) =>
                /\ calls[i].out.ok
                /\ <<calls[i].arg, calls[i].out.value>> \in Pairs(field.choices)
                /\ (/\ i < Len(calls)
                    /\ calls[i + 1].op = "to_internal_value"
                    /\ calls[i + 1].arg = calls[i].out.value) =>
                        calls[i + 1].out = [ok |-> TRUE, value |-> calls[i].arg]
        /\ (field.allow_blank /\ calls[i].arg = "") =>
                calls[i].out = [ok |-> TRUE, value |-> ""]

C9_Witness ==
    /\ Len(calls) = 2
    /\ calls[1] = Call("to_representation", "F", [ok |-> TRUE, value |-> "Female"])
    /\ calls[2] = Call("to_internal_value", "Female", [ok |-> TRUE, value |-> "F"])

\* C10: a stored customer keeps the id and the created timestamp it was
\* inserted with, whatever request is handled, an update carrying id and
\* created included.
C10_IdAndCreatedKept ==
    [][\A id \in DOMAIN db \cap DOMAIN db' :
            /\ db[id].id = id
            /\ db'[id].id = db[id].id
            /\ db'[id].created = db[id].created]_vars

C10_Witness ==
    /\ ByUser(req)
    /\ req.method = "PUT"
    /\ resp.status = HTTP_200_OK
    /\ req.data.id # req.pk
    /\ req.data.created # db[req.pk].created
    /\ db[req.pk].title = req.data.title

====
